---- MODULE Spec2Model ----
(***************************************************************************)
(* The service-provider registry of samlidp (service.go): the durable      *)
(* Store under /services/, the in-memory map serviceProviders guarded by   *)
(* the RWMutex idpConfigMu, and the handlers that read and write them from *)
(* concurrently running goroutines.                                        *)
(***************************************************************************)
EXTENDS Integers, Sequences, FiniteSets, TLC

\* ------------------------------------------------------------------ bounds
NumProcs == 2          \* goroutines that call into the Server concurrently
MaxCalls == 2          \* calls started in one behaviour

Procs == 1..NumProcs

\* ------------------------------------------------------------- value space
Names == {"a", "b"}                    \* service names (the :id URL parameter)
EntityIDs == {"", "E1", "E2"}          \* saml.EntityDescriptor.EntityID values
ListingOrder == <<"a", "b">>           \* Store.List's order of the keys

\* saml.EntityDescriptor: the EntityID and the rest of the descriptor (Body).
EntityDescriptor(e, b) == [EntityID |-> e, Body |-> b]

ZeroEntityDescriptor == EntityDescriptor("", "")

\* Descriptors the callers hand in: two different descriptors for E1, one for
\* E2 and one whose EntityID is empty.
InputMetadata ==
    { EntityDescriptor("E1", "m1"), EntityDescriptor("E1", "m2"),
      EntityDescriptor("E2", "m1"), EntityDescriptor("", "m1") }

\* type Service struct { Name string; Metadata saml.EntityDescriptor }
Service(n, m) == [Name |-> n, Metadata |-> m]

ZeroService == Service("", ZeroEntityDescriptor)

\* Request bodies of PUT: an XML document that carries a descriptor, or bytes
\* that are no metadata document.
XmlDocument(m) == [wellFormed |-> TRUE, entityID |-> m.EntityID, rest |-> m.Body]

Garbage == [wellFormed |-> FALSE, entityID |-> "", rest |-> ""]

Documents ==
    { XmlDocument(m) : m \in { d \in InputMetadata : d.Body = "m1" } } \cup {Garbage}

\* getSPMetadata(r.Body): the descriptor the document carries, or an error.
\* A pointer is a sequence of length at most one; <<>> is nil.
getSPMetadata(body) ==
    IF body.wellFormed
    THEN [metadata |-> <<EntityDescriptor(body.entityID, body.rest)>>, err |-> FALSE]
    ELSE [metadata |-> <<>>, err |-> TRUE]

\* ------------------------------------------------------------------- state
VARIABLES
    store,             \* s.Store: name (key /services/{name}) -> stored Service
    serviceProviders,  \* s.serviceProviders: EntityID -> descriptor
    idpConfigMu,       \* s.idpConfigMu: the writer (0: none) and the readers
    pc,                \* each goroutine's position in the call it runs
    arg,               \* the input of the call in flight
    service,           \* the local `service` of the call in flight
    serviceNames,      \* initializeServices: the names still to load
    response,          \* the last return: the call, its input, its error or status, its
                       \* value, and (history) whether an initializeServices ran alone
    overlapped,        \* history: another call ran during this goroutine's call
    overwritten,       \* history: the record this call's Put or Delete removed
    before,            \* history: the map that the goroutine's last call found, if
                       \* that was initializeServices
    ncalls             \* calls started so far

vars == <<store, serviceProviders, idpConfigMu, pc, arg, service,
          serviceNames, response, overlapped, overwritten, before, ncalls>>

\* -------------------------------------------------------------- map helpers
MapPut(m, k, v) == [x \in DOMAIN m \cup {k} |-> IF x = k THEN v ELSE m[x]]

MapDelete(m, k) == [x \in DOMAIN m \ {k} |-> m[x]]

EmptyMap == [x \in {} |-> ZeroService]

RECURSIVE FilterSeq(_, _)
FilterSeq(s, keep) ==
    IF s = <<>> THEN <<>>
    ELSE IF Head(s) \in keep THEN <<Head(s)>> \o FilterSeq(Tail(s), keep)
    ELSE FilterSeq(Tail(s), keep)

\* ------------------------------------------------------------ the Store
\* Store.Put(key, value): the value is serialized under the key.
StorePut(st, name, svc) == MapPut(st, name, svc)

\* Store.Delete(key)
StoreDelete(st, name) == MapDelete(st, name)

\* Store.List("/services/"): the names that have a record, in key order.
StoreList(st) == FilterSeq(ListingOrder, DOMAIN st)

\* Store.Get(key, &service) finds a record.
StoreHas(st, name) == name \in DOMAIN st

\* The record under the key, as a pointer: <<>> if there is none.
Stored(st, name) == IF name \in DOMAIN st THEN <<st[name]>> ELSE <<>>

\* ------------------------------------------------------------ the RWMutex
Unlocked == [writer |-> 0, readers |-> {}]

CanLock(mu) == mu.writer = 0 /\ mu.readers = {}

Lock(mu, p) == [mu EXCEPT !.writer = p]

Unlock(mu, p) == [mu EXCEPT !.writer = 0]

\* Faulty variant: a reader waits for the other readers too.
CanRLock_Alone(mu) == mu.writer = 0 /\ mu.readers = {}

CanRLock(mu) == mu.writer = 0

RLock(mu, p) == [mu EXCEPT !.readers = @ \cup {p}]

RUnlock(mu, p) == [mu EXCEPT !.readers = @ \ {p}]

\* -------------------------------------------------------------- results
Ret(code, val) == [code |-> code, val |-> val]

\* What the last return leaves with its caller; alone (history, kept for
\* initializeServices): no other call was in flight while the call ran.
Response(o, a, code, val, alone) ==
    [op |-> o, arg |-> a, code |-> code, val |-> val, alone |-> alone]

NoArg == <<>>

Idle(p) == pc[p] = "idle"

OthersIdle(p) == \A q \in Procs \ {p} : Idle(q)

\* ----------------------------------------------------------- the index
\* Faulty variant: the insertion is missing.
IndexInsert_Skip(index, metadata) == index

\* s.serviceProviders[service.Metadata.EntityID] = &service.Metadata
IndexInsert(index, metadata) == MapPut(index, metadata.EntityID, metadata)

\* Faulty variant: the removal is missing.
IndexDelete_Keep(index, entityID) == index

\* delete(s.serviceProviders, service.Metadata.EntityID)
IndexDelete(index, entityID) == MapDelete(index, entityID)

\* rv, ok := s.serviceProviders[serviceProviderID]
IndexLookup(index, entityID) ==
    IF entityID \in DOMAIN index
    THEN Ret("nil", <<index[entityID]>>)
    ELSE Ret("ErrNotExist", <<>>)

\* The map initializeServices builds by inserting the records of the listed
\* names, in listing order, into the map it starts from (lines 156-167).
RECURSIVE LoadAll(_, _, _)
LoadAll(index, st, names) ==
    IF names = <<>> THEN index
    ELSE LoadAll(IndexInsert(index, st[Head(names)].Metadata), st, Tail(names))

EmptyIndex == [x \in {} |-> ZeroEntityDescriptor]

\* The durable records a starting process finds: service "a", which an
\* earlier run added with AddService, and no service "b".
InitialStore == StorePut(EmptyMap, "a", Service("a", EntityDescriptor("E1", "m1")))

\* No call is in flight and none has returned.
NoCalls ==
    /\ idpConfigMu = Unlocked
    /\ pc = [p \in Procs |-> "idle"]
    /\ arg = [p \in Procs |-> NoArg]
    /\ service = [p \in Procs |-> ZeroService]
    /\ serviceNames = [p \in Procs |-> <<>>]
    /\ response = Response("none", NoArg, "", <<>>, TRUE)
    /\ overlapped = [p \in Procs |-> FALSE]
    /\ overwritten = [p \in Procs |-> <<>>]
    /\ before = [p \in Procs |-> <<>>]
    /\ ncalls = 0

Init ==
    /\ store = InitialStore
    /\ serviceProviders = LoadAll(EmptyIndex, store, StoreList(store))
    /\ NoCalls

\* ---------------------------------------------------------- call frames
\* An idle goroutine starts a call, if the behaviour has calls left.
Enter(p) ==
    /\ Idle(p)
    /\ ncalls < MaxCalls
    /\ ncalls' = ncalls + 1

\* The call started in this step returns in it: it was never in flight.
CallReturn(p, o, a, code, val) ==
    /\ Enter(p)
    /\ response' = Response(o, a, code, val, TRUE)
    /\ before' = [before EXCEPT ![p] = <<>>]
    /\ UNCHANGED <<pc, arg, service, serviceNames, overlapped, overwritten>>

\* The call started in this step, with input a, goes on at label. It overlaps
\* every call that is in flight, and they overlap it. Its store call removed
\* the record old (<<>>: none); index is the map it found, which is kept
\* until the goroutine's next call if the call is initializeServices.
CallGotoFrom(p, a, label, old, index) ==
    /\ Enter(p)
    /\ arg' = [arg EXCEPT ![p] = a]
    /\ pc' = [pc EXCEPT ![p] = label]
    /\ UNCHANGED response
    /\ overlapped' = [q \in Procs |->
                        IF q = p THEN ~OthersIdle(p)
                        ELSE IF Idle(q) THEN FALSE ELSE TRUE]
    /\ overwritten' = [overwritten EXCEPT ![p] = old]
    /\ before' = [before EXCEPT ![p] = index]

CallGotoAfter(p, a, label, old) == CallGotoFrom(p, a, label, old, <<>>)

CallGoto(p, a, label) == CallGotoAfter(p, a, label, <<>>)

\* The call in flight returns: the caller has its result, the frame is gone.
Return(p, o, code, val) ==
    /\ response' = Response(o, arg[p], code, val,
                             o = "initializeServices" => ~overlapped[p])
    /\ pc' = [pc EXCEPT ![p] = "idle"]
    /\ arg' = [arg EXCEPT ![p] = NoArg]
    /\ service' = [service EXCEPT ![p] = ZeroService]
    /\ serviceNames' = [serviceNames EXCEPT ![p] = <<>>]
    /\ overlapped' = [overlapped EXCEPT ![p] = FALSE]
    /\ overwritten' = [overwritten EXCEPT ![p] = <<>>]
    /\ UNCHANGED <<before, ncalls>>

\* The call in flight goes on at the next position. Its store call removed
\* the record old.
GotoAfter(p, label, old) ==
    /\ pc' = [pc EXCEPT ![p] = label]
    /\ overwritten' = [overwritten EXCEPT ![p] = old]
    /\ UNCHANGED <<arg, response, overlapped, before, ncalls>>

Goto(p, label) == GotoAfter(p, label, overwritten[p])

\* ----------------------------------------------------------- AddService
\* The *Service values a caller passes: nil, or a service with a name.
ServicePointers ==
    {<<>>} \cup { <<Service(n, m)>> : n \in Names, m \in InputMetadata }

\* Faulty variant: only the nil check.
AddServiceInvalid_NilOnly(ptr) == ptr = <<>>

\* if service == nil || service.Metadata.EntityID == ""
AddServiceInvalid(ptr) ==
    IF ptr = <<>> THEN TRUE ELSE ptr[1].Metadata.EntityID = ""

\* Lines 24-27: return fmt.Errorf("invalid service")
AddService_Invalid(p) ==
    \E ptr \in ServicePointers :
        /\ AddServiceInvalid(ptr)
        /\ CallReturn(p, "AddService", ptr, "invalid service", <<>>)
        /\ UNCHANGED <<store, serviceProviders, idpConfigMu>>

\* Faulty variant: the map is written before Store.Put's error is looked at.
AddService_PutError_Inserted(p) ==
    \E ptr \in ServicePointers :
        /\ ~AddServiceInvalid(ptr)
        /\ CallReturn(p, "AddService", ptr, "failed to store service", <<>>)
        /\ serviceProviders' = IndexInsert(serviceProviders, ptr[1].Metadata)
        /\ UNCHANGED <<store, idpConfigMu>>

\* Lines 24-32: Store.Put returns an error.
AddService_PutError(p) ==
    \E ptr \in ServicePointers :
        /\ ~AddServiceInvalid(ptr)
        /\ CallReturn(p, "AddService", ptr, "failed to store service", <<>>)
        /\ UNCHANGED <<store, serviceProviders, idpConfigMu>>

\* Lines 24-29: Store.Put("/services/" + service.Name, service) succeeds.
AddService_Put(p) ==
    \E ptr \in ServicePointers :
        /\ ~AddServiceInvalid(ptr)
        /\ CallGotoAfter(p, ptr, "AddService_Lock", Stored(store, ptr[1].Name))
        /\ store' = StorePut(store, ptr[1].Name, ptr[1])
        /\ UNCHANGED <<serviceProviders, idpConfigMu, service, serviceNames>>

\* Line 34: s.idpConfigMu.Lock()
AddService_Lock(p) ==
    /\ pc[p] = "AddService_Lock"
    /\ CanLock(idpConfigMu)
    /\ idpConfigMu' = Lock(idpConfigMu, p)
    /\ Goto(p, "AddService_Insert")
    /\ UNCHANGED <<store, serviceProviders, service, serviceNames>>

\* Faulty variant: an entity ID that has an entry keeps it.
AddService_Insert_IfAbsent(p) ==
    /\ pc[p] = "AddService_Insert"
    /\ serviceProviders' =
         IF arg[p][1].Metadata.EntityID \in DOMAIN serviceProviders
         THEN serviceProviders
         ELSE IndexInsert(serviceProviders, arg[p][1].Metadata)
    /\ idpConfigMu' = Unlock(idpConfigMu, p)
    /\ Return(p, "AddService", "nil", <<>>)
    /\ UNCHANGED store

\* Lines 35-39: the insertion, Unlock and return nil.
AddService_Insert(p) ==
    /\ pc[p] = "AddService_Insert"
    /\ serviceProviders' = IndexInsert(serviceProviders, arg[p][1].Metadata)
    /\ idpConfigMu' = Unlock(idpConfigMu, p)
    /\ Return(p, "AddService", "nil", <<>>)
    /\ UNCHANGED store

\* --------------------------------------------------- GetServiceProvider
\* Lines 46-47: s.idpConfigMu.RLock()
GetServiceProvider_RLock(p) ==
    \E serviceProviderID \in EntityIDs :
        /\ CanRLock(idpConfigMu)
        /\ CallGoto(p, serviceProviderID, "GetServiceProvider_Read")
        /\ idpConfigMu' = RLock(idpConfigMu, p)
        /\ UNCHANGED <<store, serviceProviders, service, serviceNames>>

\* Lines 48-58: the map read, the deferred RUnlock and the return.
GetServiceProvider_Read(p) ==
    /\ pc[p] = "GetServiceProvider_Read"
    /\ idpConfigMu' = RUnlock(idpConfigMu, p)
    /\ Return(p, "GetServiceProvider", IndexLookup(serviceProviders, arg[p]).code,
                 IndexLookup(serviceProviders, arg[p]).val)
    /\ UNCHANGED <<store, serviceProviders>>

\* --------------------------------------------------- HandleListServices
\* Lines 63-69: Store.List returns an error, 500.
HandleListServices_ListError(p) ==
    /\ CallReturn(p, "HandleListServices", NoArg, "500", <<>>)
    /\ UNCHANGED <<store, serviceProviders, idpConfigMu>>

\* Faulty variant: every name is listed, with a record or without.
HandleListServices_List_All(p) ==
    /\ CallReturn(p, "HandleListServices", NoArg, "200", ListingOrder)
    /\ UNCHANGED <<store, serviceProviders, idpConfigMu>>

\* Lines 63-64, 71-73: Store.List and the JSON response.
HandleListServices_List(p) ==
    /\ CallReturn(p, "HandleListServices", NoArg, "200", StoreList(store))
    /\ UNCHANGED <<store, serviceProviders, idpConfigMu>>

\* ----------------------------------------------------- HandleGetService
\* Lines 82-89: Store.Get finds no record or fails, 500.
HandleGetService_GetError(p) ==
    \E id \in Names :
        /\ CallReturn(p, "HandleGetService", id, "500", <<>>)
        /\ UNCHANGED <<store, serviceProviders, idpConfigMu>>

\* Lines 82-84, 90: Store.Get and the XML response.
HandleGetService_Get(p) ==
    \E id \in Names :
        /\ StoreHas(store, id)
        /\ CallReturn(p, "HandleGetService", id, "200", <<store[id].Metadata>>)
        /\ UNCHANGED <<store, serviceProviders, idpConfigMu>>

\* ----------------------------------------------------- HandlePutService
\* The PUT requests: the :id and the body.
PutRequests == { [id |-> n, body |-> d] : n \in Names, d \in Documents }

\* service := Service{}; service.Metadata = *metadata
PutServiceValue(metadata) == [ZeroService EXCEPT !.Metadata = metadata]

\* Faulty variant: the empty service is stored before the 400.
HandlePutService_DecodeError_Stored(p) ==
    \E r \in PutRequests :
        /\ getSPMetadata(r.body).err
        /\ CallReturn(p, "HandlePutService", r, "400", <<>>)
        /\ store' = StorePut(store, r.id, ZeroService)
        /\ UNCHANGED <<serviceProviders, idpConfigMu>>

\* Lines 99-107: getSPMetadata fails, 400.
HandlePutService_DecodeError(p) ==
    \E r \in PutRequests :
        /\ getSPMetadata(r.body).err
        /\ CallReturn(p, "HandlePutService", r, "400", <<>>)
        /\ UNCHANGED <<store, serviceProviders, idpConfigMu>>

\* Lines 99-116: Store.Put returns an error, 500.
HandlePutService_PutError(p) ==
    \E r \in PutRequests :
        /\ ~getSPMetadata(r.body).err
        /\ CallReturn(p, "HandlePutService", r, "500", <<>>)
        /\ UNCHANGED <<store, serviceProviders, idpConfigMu>>

\* Lines 99-111: Store.Put("/services/" + id, &service) succeeds.
HandlePutService_Put(p) ==
    \E r \in PutRequests :
        /\ ~getSPMetadata(r.body).err
        /\ CallGotoAfter(p, r, "HandlePutService_Lock", Stored(store, r.id))
        /\ service' = [service EXCEPT ![p] =
                         PutServiceValue(getSPMetadata(r.body).metadata[1])]
        /\ store' = StorePut(store, r.id, service'[p])
        /\ UNCHANGED <<serviceProviders, idpConfigMu, serviceNames>>

\* Line 118: s.idpConfigMu.Lock()
HandlePutService_Lock(p) ==
    /\ pc[p] = "HandlePutService_Lock"
    /\ CanLock(idpConfigMu)
    /\ idpConfigMu' = Lock(idpConfigMu, p)
    /\ Goto(p, "HandlePutService_Insert")
    /\ UNCHANGED <<store, serviceProviders, service, serviceNames>>

\* Lines 119-122: the insertion, Unlock and 204.
HandlePutService_Insert(p) ==
    /\ pc[p] = "HandlePutService_Insert"
    /\ serviceProviders' = IndexInsert(serviceProviders, service[p].Metadata)
    /\ idpConfigMu' = Unlock(idpConfigMu, p)
    /\ Return(p, "HandlePutService", "204", <<>>)
    /\ UNCHANGED store

\* -------------------------------------------------- HandleDeleteService
\* Lines 126-133: Store.Get finds no record or fails, 500.
HandleDeleteService_GetError(p) ==
    \E id \in Names :
        /\ CallReturn(p, "HandleDeleteService", id, "500", <<>>)
        /\ UNCHANGED <<store, serviceProviders, idpConfigMu>>

\* Lines 126-128: Store.Get reads the record into service.
HandleDeleteService_Get(p) ==
    \E id \in Names :
        /\ StoreHas(store, id)
        /\ CallGoto(p, id, "HandleDeleteService_Delete")
        /\ service' = [service EXCEPT ![p] = store[id]]
        /\ UNCHANGED <<store, serviceProviders, idpConfigMu, serviceNames>>

\* Faulty variant: the map entry is removed although Store.Delete failed.
HandleDeleteService_DeleteError_Removed(p) ==
    /\ pc[p] = "HandleDeleteService_Delete"
    /\ Return(p, "HandleDeleteService", "500", <<>>)
    /\ serviceProviders' = IndexDelete(serviceProviders, service[p].Metadata.EntityID)
    /\ UNCHANGED <<store, idpConfigMu>>

\* Lines 135-139: Store.Delete returns an error, 500.
HandleDeleteService_DeleteError(p) ==
    /\ pc[p] = "HandleDeleteService_Delete"
    /\ Return(p, "HandleDeleteService", "500", <<>>)
    /\ UNCHANGED <<store, serviceProviders, idpConfigMu>>

\* Line 135: Store.Delete("/services/" + id) succeeds.
HandleDeleteService_Delete(p) ==
    /\ pc[p] = "HandleDeleteService_Delete"
    /\ store' = StoreDelete(store, arg[p])
    /\ GotoAfter(p, "HandleDeleteService_Lock", Stored(store, arg[p]))
    /\ UNCHANGED <<serviceProviders, idpConfigMu, service, serviceNames>>

\* Line 141: s.idpConfigMu.Lock()
HandleDeleteService_Lock(p) ==
    /\ pc[p] = "HandleDeleteService_Lock"
    /\ CanLock(idpConfigMu)
    /\ idpConfigMu' = Lock(idpConfigMu, p)
    /\ Goto(p, "HandleDeleteService_Remove")
    /\ UNCHANGED <<store, serviceProviders, service, serviceNames>>

\* Faulty variant: the map entry is removed under the name, not the entity ID.
HandleDeleteService_Remove_ByName(p) ==
    /\ pc[p] = "HandleDeleteService_Remove"
    /\ serviceProviders' = IndexDelete(serviceProviders, arg[p])
    /\ idpConfigMu' = Unlock(idpConfigMu, p)
    /\ Return(p, "HandleDeleteService", "204", <<>>)
    /\ UNCHANGED store

\* Lines 142-145: the removal, Unlock and 204.
HandleDeleteService_Remove(p) ==
    /\ pc[p] = "HandleDeleteService_Remove"
    /\ serviceProviders' = IndexDelete(serviceProviders, service[p].Metadata.EntityID)
    /\ idpConfigMu' = Unlock(idpConfigMu, p)
    /\ Return(p, "HandleDeleteService", "204", <<>>)
    /\ UNCHANGED store

\* --------------------------------------------------- initializeServices
\* Lines 150-154: Store.List returns an error.
initializeServices_ListError(p) ==
    /\ CallReturn(p, "initializeServices", NoArg, "error", <<>>)
    /\ UNCHANGED <<store, serviceProviders, idpConfigMu>>

\* Lines 150-151: Store.List("/services/") returns the names.
initializeServices_List(p) ==
    /\ CallGotoFrom(p, NoArg, "initializeServices_Get", <<>>, <<serviceProviders>>)
    /\ serviceNames' = [serviceNames EXCEPT ![p] = StoreList(store)]
    /\ UNCHANGED <<store, serviceProviders, idpConfigMu, service>>

\* Lines 156, 168-169: the range is exhausted; the map is formatted for the
\* log, with idpConfigMu not held, and nil is returned.
initializeServices_Done(p) ==
    /\ pc[p] = "initializeServices_Get"
    /\ serviceNames[p] = <<>>
    /\ Return(p, "initializeServices", "nil", <<>>)
    /\ UNCHANGED <<store, serviceProviders, idpConfigMu>>

\* Line 168, while another goroutine holds idpConfigMu for writing: the map
\* is read and written at once, which the Go runtime may answer with its fatal
\* error "concurrent map iteration and map write". The process ends; no
\* goroutine takes another step.
initializeServices_Fatal(p) ==
    /\ pc[p] = "initializeServices_Get"
    /\ serviceNames[p] = <<>>
    /\ \E q \in Procs \ {p} : idpConfigMu.writer = q
    /\ pc' = [q \in Procs |-> "fatal"]
    /\ UNCHANGED <<store, serviceProviders, idpConfigMu, arg, service, serviceNames,
                   response, overlapped, overwritten, before, ncalls>>

\* Faulty variant: the failing call takes its insertions back.
initializeServices_GetError_Undone(p) ==
    /\ pc[p] = "initializeServices_Get"
    /\ serviceNames[p] # <<>>
    /\ Return(p, "initializeServices", "error", <<>>)
    /\ serviceProviders' = before[p][1]
    /\ UNCHANGED <<store, idpConfigMu>>

\* Lines 156-161: Store.Get of the next name finds no record or fails.
initializeServices_GetError(p) ==
    /\ pc[p] = "initializeServices_Get"
    /\ serviceNames[p] # <<>>
    /\ Return(p, "initializeServices", "error", <<>>)
    /\ UNCHANGED <<store, serviceProviders, idpConfigMu>>

\* Lines 156-158: Store.Get reads the next name's record into service.
initializeServices_Get(p) ==
    /\ pc[p] = "initializeServices_Get"
    /\ serviceNames[p] # <<>>
    /\ StoreHas(store, Head(serviceNames[p]))
    /\ service' = [service EXCEPT ![p] = store[Head(serviceNames[p])]]
    /\ Goto(p, "initializeServices_Lock")
    /\ UNCHANGED <<store, serviceProviders, idpConfigMu, serviceNames>>

\* Line 164: s.idpConfigMu.Lock()
initializeServices_Lock(p) ==
    /\ pc[p] = "initializeServices_Lock"
    /\ CanLock(idpConfigMu)
    /\ idpConfigMu' = Lock(idpConfigMu, p)
    /\ Goto(p, "initializeServices_Insert")
    /\ UNCHANGED <<store, serviceProviders, service, serviceNames>>

\* Faulty variant: an entity ID that has an entry keeps it.
initializeServices_Insert_IfAbsent(p) ==
    /\ pc[p] = "initializeServices_Insert"
    /\ serviceProviders' =
         IF service[p].Metadata.EntityID \in DOMAIN serviceProviders
         THEN serviceProviders
         ELSE IndexInsert(serviceProviders, service[p].Metadata)
    /\ idpConfigMu' = Unlock(idpConfigMu, p)
    /\ serviceNames' = [serviceNames EXCEPT ![p] = Tail(@)]
    /\ service' = [service EXCEPT ![p] = ZeroService]
    /\ Goto(p, "initializeServices_Get")
    /\ UNCHANGED store

\* Faulty variant: an entity ID that has an entry loses it.
initializeServices_Insert_Toggle(p) ==
    /\ pc[p] = "initializeServices_Insert"
    /\ serviceProviders' =
         IF service[p].Metadata.EntityID \in DOMAIN serviceProviders
         THEN IndexDelete(serviceProviders, service[p].Metadata.EntityID)
         ELSE IndexInsert(serviceProviders, service[p].Metadata)
    /\ idpConfigMu' = Unlock(idpConfigMu, p)
    /\ serviceNames' = [serviceNames EXCEPT ![p] = Tail(@)]
    /\ service' = [service EXCEPT ![p] = ZeroService]
    /\ Goto(p, "initializeServices_Get")
    /\ UNCHANGED store

\* Lines 165-167: the insertion, Unlock and the next round of the range.
initializeServices_Insert(p) ==
    /\ pc[p] = "initializeServices_Insert"
    /\ serviceProviders' = IndexInsert(serviceProviders, service[p].Metadata)
    /\ idpConfigMu' = Unlock(idpConfigMu, p)
    /\ serviceNames' = [serviceNames EXCEPT ![p] = Tail(@)]
    /\ service' = [service EXCEPT ![p] = ZeroService]
    /\ Goto(p, "initializeServices_Get")
    /\ UNCHANGED store

\* ------------------------------------------------------- specification
Next ==
    \E p \in Procs :
        \/ AddService_Invalid(p)
        \/ AddService_PutError(p)
        \/ AddService_Put(p)
        \/ AddService_Lock(p)
        \/ AddService_Insert(p)
        \/ GetServiceProvider_RLock(p)
        \/ GetServiceProvider_Read(p)
        \/ HandleListServices_ListError(p)
        \/ HandleListServices_List(p)
        \/ HandleGetService_GetError(p)
        \/ HandleGetService_Get(p)
        \/ HandlePutService_DecodeError(p)
        \/ HandlePutService_PutError(p)
        \/ HandlePutService_Put(p)
        \/ HandlePutService_Lock(p)
        \/ HandlePutService_Insert(p)
        \/ HandleDeleteService_GetError(p)
        \/ HandleDeleteService_Get(p)
        \/ HandleDeleteService_DeleteError(p)
        \/ HandleDeleteService_Delete(p)
        \/ HandleDeleteService_Lock(p)
        \/ HandleDeleteService_Remove(p)
        \/ initializeServices_ListError(p)
        \/ initializeServices_List(p)
        \/ initializeServices_Done(p)
        \/ initializeServices_Fatal(p)
        \/ initializeServices_GetError(p)
        \/ initializeServices_Get(p)
        \/ initializeServices_Lock(p)
        \/ initializeServices_Insert(p)

Spec == Init /\ [][Next]_vars

\* ------------------------------------------------------------- scheduling
\* The steps of goroutine p's call in flight: each takes the call one
\* position further or ends it.
Continue(p) ==
    \/ AddService_Lock(p)
    \/ AddService_Insert(p)
    \/ GetServiceProvider_Read(p)
    \/ HandlePutService_Lock(p)
    \/ HandlePutService_Insert(p)
    \/ HandleDeleteService_DeleteError(p)
    \/ HandleDeleteService_Delete(p)
    \/ HandleDeleteService_Lock(p)
    \/ HandleDeleteService_Remove(p)
    \/ initializeServices_Done(p)
    \/ initializeServices_Fatal(p)
    \/ initializeServices_GetError(p)
    \/ initializeServices_Get(p)
    \/ initializeServices_Lock(p)
    \/ initializeServices_Insert(p)

\* ------------------------------------------------- initializeServices alone
\* What initializeServices can find when it begins: under each name no record
\* or a record that AddService stored, and in the map, for each entity ID, no
\* entry or an entry that an earlier call left there. Writes that replace a
\* record or race with HandleDeleteService leave every such combination.
ReloadMetadata == { m \in InputMetadata : m.EntityID # "" }

ReloadStores ==
    UNION { { [n \in S |-> Service(n, f[n])] : f \in [S -> ReloadMetadata] } :
            S \in SUBSET Names }

ReloadIndexes ==
    UNION { { f \in [D -> ReloadMetadata] : \A e \in D : f[e].EntityID = e } :
            D \in SUBSET (EntityIDs \ {""}) }

InitReload ==
    /\ store \in ReloadStores
    /\ serviceProviders \in ReloadIndexes
    /\ NoCalls

\* initializeServices and GetServiceProvider run; nothing writes the Store.
NextReload ==
    \E p \in Procs :
        \/ initializeServices_ListError(p)
        \/ initializeServices_List(p)
        \/ initializeServices_Done(p)
        \/ initializeServices_Fatal(p)
        \/ initializeServices_GetError(p)
        \/ initializeServices_Get(p)
        \/ initializeServices_Lock(p)
        \/ initializeServices_Insert(p)
        \/ GetServiceProvider_RLock(p)
        \/ GetServiceProvider_Read(p)

SpecReload == InitReload /\ [][NextReload]_vars

\* ------------------------------------------------- what the claims speak of
\* A write operation (AddService, HandlePutService, HandleDeleteService,
\* initializeServices) is in flight.
WriteInFlight(p) == pc[p] \notin {"idle", "GetServiceProvider_Read"}

NoWriteInFlight == \A p \in Procs : ~WriteInFlight(p)

\* Every index entry is the metadata of a durable record with that entity ID.
NoExtraEntry(index, st) ==
    \A e \in DOMAIN index :
        \E n \in DOMAIN st :
            st[n].Metadata.EntityID = e /\ st[n].Metadata = index[e]

\* Every durable record's entity ID has an index entry.
NoMissingEntry(index, st) ==
    \A n \in DOMAIN st : st[n].Metadata.EntityID \in DOMAIN index

\* lookupByEntityID and getByName on a state's index and store.
LookupByEntityID(index, e) ==
    IF e \in DOMAIN index THEN <<index[e]>> ELSE <<>>

GetByName(st, n) == IF n \in DOMAIN st THEN <<st[n]>> ELSE <<>>

\* This step is the return of a call that was never in flight.
ReturnsAtOnce == ncalls' = ncalls + 1 /\ pc' = pc

\* This step is the return of goroutine p's call in flight.
ReturnsFrom(p, label) == pc[p] = label /\ pc'[p] = "idle"

\* ----------------------------------------------------------------- C1
\* C1: whenever no write operation is in flight, the index is exactly the
\* mapping entityID -> metadata of the durable records: it has no entry that no
\* durable record carries, and an entry for every durable record.
C1_IndexMirrorsStore ==
    NoWriteInFlight =>
        /\ NoExtraEntry(serviceProviders, store)
        /\ NoMissingEntry(serviceProviders, store)

\* ----------------------------------------------------------------- C2
\* The metadata that the insertion step of goroutine p puts into the index.
InsertedMetadata(p) ==
    IF pc[p] = "AddService_Insert" THEN arg[p][1].Metadata ELSE service[p].Metadata

\* C2: when a write to a name replaces a record with entity ID E1 by one with
\* a different entity ID E2, then once the update has returned
\* lookupByEntityID(E1) is NotFound and lookupByEntityID(E2) is the new metadata.
C2_OldEntryRemoved ==
    [][\A p \in Procs :
         ( /\ ReturnsFrom(p, "AddService_Insert") \/ ReturnsFrom(p, "HandlePutService_Insert")
           /\ overwritten[p] # <<>>
           /\ overwritten[p][1].Metadata.EntityID # InsertedMetadata(p).EntityID )
         => /\ LookupByEntityID(serviceProviders', overwritten[p][1].Metadata.EntityID) = <<>>
            /\ LookupByEntityID(serviceProviders', InsertedMetadata(p).EntityID)
                 = <<InsertedMetadata(p)>>]_vars

\* ----------------------------------------------------------------- C3
\* C3: no durable record and no index entry has an empty entity ID.
C3_NoEmptyEntityID ==
    /\ \A n \in DOMAIN store : store[n].Metadata.EntityID # ""
    /\ "" \notin DOMAIN serviceProviders

\* ----------------------------------------------------------------- C4
\* No durable record carries the entity ID.
NotDurable(st, e) == \A n \in DOMAIN st : st[n].Metadata.EntityID # e

\* C4 as stated: there is no state in which unregister has deleted the durable
\* record and a lookup, holding the read lock, still finds the index entry of
\* the record's entity ID.
C4_NoLookupOfDeleted ==
    \A p, q \in Procs :
        ~ ( /\ pc[p] = "HandleDeleteService_Lock"
            /\ overwritten[p] # <<>>
            /\ NotDurable(store, overwritten[p][1].Metadata.EntityID)
            /\ pc[q] = "GetServiceProvider_Read"
            /\ arg[q] = overwritten[p][1].Metadata.EntityID
            /\ LookupByEntityID(serviceProviders, arg[q]) # <<>> )

\* C4 amended: unregister deletes the durable record first, leaving the index
\* as it is, and removes the index entry of the record it read afterwards,
\* in the step that releases the lock and returns 204.
C4_IndexRemovedAfterDelete ==
    [][\A p \in Procs :
         /\ (pc[p] = "HandleDeleteService_Delete" /\ pc'[p] = "HandleDeleteService_Lock")
            => /\ arg[p] \notin DOMAIN store'
               /\ serviceProviders' = serviceProviders
         /\ ReturnsFrom(p, "HandleDeleteService_Remove")
            => /\ LookupByEntityID(serviceProviders', service[p].Metadata.EntityID) = <<>>
               /\ store' = store
               /\ response'.code = "204"]_vars

\* A lookup reads the index entry of a record that unregister has deleted.
C4_Witness ==
    \E p, q \in Procs :
        /\ pc[p] = "HandleDeleteService_Lock"
        /\ pc[q] = "GetServiceProvider_Read"
        /\ arg[q] = service[p].Metadata.EntityID
        /\ arg[q] \in DOMAIN serviceProviders
        /\ arg[p] \notin DOMAIN store

\* ----------------------------------------------------------------- C5
\* After this step lookupByEntityID and getByName give what goroutine p's
\* AddService call registered.
ReadsBackRegistered(p) ==
    /\ LookupByEntityID(serviceProviders', arg[p][1].Metadata.EntityID)
         = <<arg[p][1].Metadata>>
    /\ GetByName(store', arg[p][1].Name) = arg[p]

\* C5 as stated: right after register returns success, with no other
\* operation in flight, lookupByEntityID gives the registered metadata and
\* getByName the registered record.
C5_WriteThenRead ==
    [][\A p \in Procs :
         (ReturnsFrom(p, "AddService_Insert") /\ OthersIdle(p))
         => ReadsBackRegistered(p)]_vars

\* C5 amended: the same, for a register call during which no other call was
\* in flight.
C5_WriteThenReadAlone ==
    [][\A p \in Procs :
         (ReturnsFrom(p, "AddService_Insert") /\ ~overlapped[p])
         => ReadsBackRegistered(p)]_vars

\* AddService has added, alone, service "b" with entity ID E2.
C5_Witness ==
    /\ response.op = "AddService"
    /\ response.code = "nil"
    /\ response.arg = <<Service("b", EntityDescriptor("E2", "m1"))>>
    /\ LookupByEntityID(serviceProviders, "E2") = <<EntityDescriptor("E2", "m1")>>
    /\ GetByName(store, "b") = response.arg
    /\ ncalls = 1

\* ----------------------------------------------------------------- C6
\* After this step getByName of the name goroutine p unregistered and
\* lookupByEntityID of the entity IDs of the record it read and of the record
\* it deleted are NotFound.
UnregisteredIsGone(p) ==
    /\ GetByName(store', arg[p]) = <<>>
    /\ LookupByEntityID(serviceProviders', service[p].Metadata.EntityID) = <<>>
    /\ overwritten[p] # <<>>
       => LookupByEntityID(serviceProviders', overwritten[p][1].Metadata.EntityID) = <<>>

\* C6 as stated: right after unregister returns success, with no other
\* operation in flight, the name and the deleted record's entity ID are NotFound.
C6_DeleteRemovesBoth ==
    [][\A p \in Procs :
         (ReturnsFrom(p, "HandleDeleteService_Remove") /\ OthersIdle(p))
         => UnregisteredIsGone(p)]_vars

\* C6 amended: the same, for an unregister call during which no other call
\* was in flight.
C6_DeleteRemovesBothAlone ==
    [][\A p \in Procs :
         (ReturnsFrom(p, "HandleDeleteService_Remove") /\ ~overlapped[p])
         => UnregisteredIsGone(p)]_vars

\* HandleDeleteService has deleted, alone, the service "a" of the initial store.
C6_Witness ==
    /\ response.op = "HandleDeleteService"
    /\ response.code = "204"
    /\ response.arg = "a"
    /\ GetByName(store, "a") = <<>>
    /\ LookupByEntityID(serviceProviders, "E1") = <<>>
    /\ ncalls = 1

\* ----------------------------------------------------------------- C7
\* The *Service is nil or has an empty entity ID.
EmptyOrNil(ptr) == IF ptr = <<>> THEN TRUE ELSE ptr[1].Metadata.EntityID = ""

\* C7: AddService with a nil service or an empty entity ID returns "invalid
\* service" at once, store and index stay as they were, and no such call gets
\* as far as Store.Put.
C7_InvalidRegisterRejected ==
    [][/\ (ReturnsAtOnce /\ response'.op = "AddService" /\ EmptyOrNil(response'.arg))
          => /\ response'.code = "invalid service"
             /\ store' = store
             /\ serviceProviders' = serviceProviders
       /\ \A p \in Procs :
            pc'[p] \in {"AddService_Lock", "AddService_Insert"} => ~EmptyOrNil(arg'[p])]_vars

\* AddService has rejected a service whose entity ID is empty.
C7_Witness ==
    /\ response.op = "AddService"
    /\ response.code = "invalid service"
    /\ response.arg # <<>>
    /\ response.arg[1].Metadata.EntityID = ""

\* ----------------------------------------------------------------- C8
\* This step is a return of op with one of the codes.
Returns(o, codes) ==
    /\ ReturnsAtOnce \/ \E p \in Procs : ~Idle(p) /\ pc'[p] = "idle"
    /\ response'.op = o
    /\ response'.code \in codes

\* C8: a register or replaceFromDocument that fails on Store.Put (with
\* "failed to store service", 500) leaves the index as it was, and so does
\* every register or replaceFromDocument that does not return success.
C8_FailedWriteLeavesIndex ==
    [][/\ Returns("AddService", {"failed to store service", "invalid service"})
          => serviceProviders' = serviceProviders /\ store' = store
       /\ Returns("HandlePutService", {"500", "400"})
          => serviceProviders' = serviceProviders /\ store' = store
       /\ (\E p \in Procs : ReturnsFrom(p, "AddService_Insert")
                              \/ ReturnsFrom(p, "HandlePutService_Insert"))
          => response'.code \in {"nil", "204"}]_vars

\* Store.Put has failed in AddService for a service that is not indexed.
C8_Witness ==
    /\ response.op = "AddService"
    /\ response.code = "failed to store service"
    /\ response.arg[1].Metadata.EntityID \notin DOMAIN serviceProviders

\* ----------------------------------------------------------------- C9
\* C9: an unregister that returns 500 leaves store and index as they were:
\* at once when the name has no record, and when Store.Delete fails after the
\* record was read; and unregister goes on to Store.Delete only with a record.
C9_FailedUnregisterLeavesIndex ==
    [][/\ Returns("HandleDeleteService", {"500"})
          => serviceProviders' = serviceProviders /\ store' = store
       /\ (ReturnsAtOnce /\ response'.op = "HandleDeleteService"
             /\ response'.arg \notin DOMAIN store)
          => response'.code = "500"
       /\ \A p \in Procs :
            /\ (Idle(p) /\ pc'[p] = "HandleDeleteService_Delete")
               => arg'[p] \in DOMAIN store /\ service'[p] = store[arg'[p]]
            /\ (pc[p] = "HandleDeleteService_Delete" /\ pc'[p] = "idle")
               => response'.code = "500"]_vars

\* Store.Delete has failed: the record and its index entry are still there.
C9_Witness ==
    /\ response.op = "HandleDeleteService"
    /\ response.code = "500"
    /\ response.arg = "a"
    /\ GetByName(store, "a") # <<>>
    /\ LookupByEntityID(serviceProviders, store["a"].Metadata.EntityID)
         = <<store["a"].Metadata>>

\* ---------------------------------------------------------------- C10
\* C10: HandlePutService with a body that getSPMetadata rejects returns 400
\* at once, store and index stay as they were, and no such request gets as
\* far as Store.Put.
C10_DecodeErrorTouchesNothing ==
    [][/\ (ReturnsAtOnce /\ response'.op = "HandlePutService"
             /\ ~response'.arg.body.wellFormed)
          => /\ response'.code = "400"
             /\ store' = store
             /\ serviceProviders' = serviceProviders
       /\ \A p \in Procs :
            pc'[p] \in {"HandlePutService_Lock", "HandlePutService_Insert"}
            => arg'[p].body.wellFormed]_vars

\* HandlePutService has answered 400 to a body that is no metadata document.
C10_Witness ==
    /\ response.op = "HandlePutService"
    /\ response.code = "400"
    /\ response.arg.body = Garbage

\* ---------------------------------------------------------------- C11
\* C11: HandlePutService with a document that decodes to metadata m does what
\* AddService(&Service{Name: id, Metadata: m}) does from the same state: it
\* goes on to Store.Put only when AddService would, the record it puts under
\* /services/{id} is the one AddService puts, name included, and the entry it
\* inserts is the one AddService inserts.
C11_ReplaceAsRegister ==
    [][\A p \in Procs :
         /\ (Idle(p) /\ pc'[p] = "HandlePutService_Lock")
            => /\ ~EmptyOrNil(<<Service(arg'[p].id, service'[p].Metadata)>>)
               /\ GetByName(store', arg'[p].id)
                    = <<Service(arg'[p].id, service'[p].Metadata)>>
         /\ ReturnsFrom(p, "HandlePutService_Insert")
            => LookupByEntityID(serviceProviders', service[p].Metadata.EntityID)
                 = <<service[p].Metadata>>]_vars

\* ---------------------------------------------------------------- C12
\* initializeServices of goroutine p is in flight.
InReload(p) ==
    pc[p] \in {"initializeServices_Get", "initializeServices_Lock",
               "initializeServices_Insert"}

\* This step is the return of goroutine p's initializeServices with the code.
ReloadReturns(p, code) ==
    /\ InReload(p)
    /\ pc'[p] = "idle"
    /\ response'.code = code

\* index1 is index0 with the durable records loaded: every durable record's
\* entity ID has an entry, the entry of an entity ID that a durable record
\* carries is the metadata of such a record, and every other entry of index1
\* is an entry of index0 and the other way round.
LoadedInto(index0, index1, st) ==
    /\ NoMissingEntry(index1, st)
    /\ \A e \in DOMAIN index1 :
          IF NotDurable(st, e)
          THEN LookupByEntityID(index0, e) = <<index1[e]>>
          ELSE \E n \in DOMAIN st : st[n].Metadata = index1[e]
    /\ \A e \in DOMAIN index0 : e \in DOMAIN index1

\* C12 as stated: when initializeServices returns nil and nothing writes the
\* Store meanwhile, the map is exactly the durable set, whatever the map held
\* when the call began: no entry is left that no durable record carries.
C12_ReloadMirrors ==
    [][\A p \in Procs :
         ReloadReturns(p, "nil")
         => /\ NoExtraEntry(serviceProviders', store')
            /\ NoMissingEntry(serviceProviders', store')]_vars

\* C12 amended: when initializeServices returns nil and nothing writes the
\* Store meanwhile, the map is the map the call found with the durable records
\* loaded into it; the entries it found that no durable record carries are
\* still there. It is exactly the durable set when the call found no such entry.
C12_ReloadAddsDurable ==
    [][\A p \in Procs :
         ReloadReturns(p, "nil")
         => /\ LoadedInto(before[p][1], serviceProviders', store')
            /\ NoExtraEntry(before[p][1], store)
               => NoExtraEntry(serviceProviders', store')]_vars

\* initializeServices has returned nil with records under both names, both with
\* entity ID E1, and an entry for E2 that it found: the map holds the listed
\* last record's metadata under E1, and the E2 entry.
C12_Witness ==
    /\ response.op = "initializeServices"
    /\ response.code = "nil"
    /\ ncalls = 1
    /\ DOMAIN store = {"a", "b"}
    /\ store["a"].Metadata = EntityDescriptor("E1", "m1")
    /\ store["b"].Metadata = EntityDescriptor("E1", "m2")
    /\ DOMAIN serviceProviders = {"E1", "E2"}
    /\ serviceProviders["E1"] = EntityDescriptor("E1", "m2")
    /\ \E p \in Procs : before[p] # <<>> /\ DOMAIN before[p][1] = {"E2"}

\* ---------------------------------------------------------------- C13
\* Goroutine p's initializeServices began right after an initializeServices
\* returned nil: no other call ran during the first, in between or since.
SecondReload(p) ==
    /\ InReload(p)
    /\ ~overlapped[p]
    /\ response.op = "initializeServices"
    /\ response.code = "nil"
    /\ response.alone

\* C13 as stated: the second of two initializeServices calls in succession
\* returns with the map it found, and that map is exactly the durable set.
C13_ReloadTwiceMirrors ==
    [][\A p \in Procs :
         (SecondReload(p) /\ ReloadReturns(p, "nil"))
         => /\ serviceProviders' = before[p][1]
            /\ NoExtraEntry(serviceProviders', store')
            /\ NoMissingEntry(serviceProviders', store')]_vars

\* C13 amended: the second of two initializeServices calls in succession
\* returns with the map the first one left; it has an entry for every durable
\* record, and it still has the entries that no durable record carries.
C13_ReloadTwiceSame ==
    [][\A p \in Procs :
         (SecondReload(p) /\ ReloadReturns(p, "nil"))
         => /\ serviceProviders' = before[p][1]
            /\ LoadedInto(before[p][1], serviceProviders', store')]_vars

\* Two initializeServices calls in succession have returned nil; the map has
\* the durable record's entry and an entry that no durable record carries.
C13_Witness ==
    /\ response.op = "initializeServices"
    /\ response.code = "nil"
    /\ ncalls = 2
    /\ \A p \in Procs : Idle(p)
    /\ DOMAIN store = {"a"}
    /\ store["a"].Metadata = EntityDescriptor("E1", "m1")
    /\ DOMAIN serviceProviders = {"E1", "E2"}
    /\ serviceProviders["E1"] = EntityDescriptor("E1", "m1")

\* ---------------------------------------------------------------- C14
\* The next step of goroutine p reads the map: lines 50-51 of
\* GetServiceProvider, line 168 of initializeServices.
ReadsIndex(p) ==
    \/ pc[p] = "GetServiceProvider_Read"
    \/ pc[p] = "initializeServices_Get" /\ serviceNames[p] = <<>>

\* The next step of goroutine p writes the map: lines 35, 119, 142, 165.
WritesIndex(p) ==
    pc[p] \in {"AddService_Insert", "HandlePutService_Insert",
               "HandleDeleteService_Remove", "initializeServices_Insert"}

\* C14: a goroutine that is about to write the map holds idpConfigMu for
\* writing, a goroutine that is about to read it holds idpConfigMu for reading
\* (or writing), and no goroutine is about to read the map while another
\* is about to write it.
C14_IndexUnderLock ==
    /\ \A p \in Procs : WritesIndex(p) => idpConfigMu.writer = p
    /\ \A p \in Procs :
          ReadsIndex(p) => (p \in idpConfigMu.readers \/ idpConfigMu.writer = p)
    /\ \A p, q \in Procs : ~(p # q /\ WritesIndex(p) /\ ReadsIndex(q))

\* ---------------------------------------------------------------- C15
\* C15: while no write operation is in flight, a goroutine that can start a
\* call can start GetServiceProvider and take the read lock, whoever holds it
\* for reading, and a goroutine that holds it can finish its lookup.
C15_LookupsDoNotWait ==
    NoWriteInFlight =>
        \A p \in Procs :
            /\ (Idle(p) /\ ncalls < MaxCalls) => ENABLED GetServiceProvider_RLock(p)
            /\ pc[p] = "GetServiceProvider_Read" => ENABLED GetServiceProvider_Read(p)

\* Two lookups hold the read lock at the same time.
C15_Witness ==
    \E p, q \in Procs :
        /\ p # q
        /\ {p, q} \subseteq idpConfigMu.readers
        /\ pc[p] = "GetServiceProvider_Read"
        /\ pc[q] = "GetServiceProvider_Read"
        /\ idpConfigMu.writer = 0

\* ---------------------------------------------------------------- C16
\* The elements of a sequence.
Range(seq) == { seq[i] : i \in DOMAIN seq }

\* C16: HandleListServices answers with the names that have a record under
\* /services/, each once; AddService's Put adds its name to them and
\* HandleDeleteService's Delete takes its name from them; so after a sequence of
\* successful AddService and HandleDeleteService calls the listing is the names
\* added and not since deleted.
C16_ListIsDurableNames ==
    [][/\ (ReturnsAtOnce /\ response'.op = "HandleListServices" /\ response'.code = "200")
          => /\ Range(response'.val) = DOMAIN store
             /\ Len(response'.val) = Cardinality(DOMAIN store)
       /\ \A p \in Procs :
            /\ (Idle(p) /\ pc'[p] = "AddService_Lock")
               => DOMAIN store' = DOMAIN store \cup {arg'[p][1].Name}
            /\ (pc[p] = "HandleDeleteService_Delete" /\ pc'[p] = "HandleDeleteService_Lock")
               => DOMAIN store' = DOMAIN store \ {arg[p]}
            /\ (ReturnsFrom(p, "AddService_Insert") \/ ReturnsFrom(p, "HandleDeleteService_Remove"))
               => store' = store]_vars

\* HandleDeleteService has deleted service "a"; HandleListServices, called
\* after it, has answered with no name.
C16_Witness ==
    /\ response.op = "HandleListServices"
    /\ response.code = "200"
    /\ response.val = <<>>
    /\ store = EmptyMap
    /\ "E1" \notin DOMAIN serviceProviders
    /\ ncalls = 2
    /\ \A p \in Procs : Idle(p)

\* ---------------------------------------------------------------- C17
\* No HandleDeleteService call is in flight.
NoUnregister ==
    \A p \in Procs :
        pc[p] \notin {"HandleDeleteService_Delete", "HandleDeleteService_Lock",
                      "HandleDeleteService_Remove"}

\* C17: AddService and HandlePutService get to the insertion only with their
\* record in the Store, and, while no HandleDeleteService is running, a
\* GetServiceProvider that finds an entry finds it for an entity ID that a
\* durable record carries.
C17_NoLookupOfNonDurable ==
    [][\A p \in Procs :
         /\ (Idle(p) /\ pc'[p] = "AddService_Lock")
            => GetByName(store', arg'[p][1].Name) = arg'[p]
         /\ (Idle(p) /\ pc'[p] = "HandlePutService_Lock")
            => GetByName(store', arg'[p].id) = <<service'[p]>>
         /\ (ReturnsFrom(p, "GetServiceProvider_Read") /\ NoUnregister
                /\ response'.code = "nil")
            => ~NotDurable(store, arg[p])]_vars

\* ---------------------------------------------------------------- C18
\* The names whose records goroutine p's initializeServices has loaded: the
\* listed names that are no longer to be loaded.
LoadedNames(p) == DOMAIN store \ Range(serviceNames[p])

\* C18 as stated: when initializeServices returns an error from a Store.Get,
\* with no other call running meanwhile, the map is the map the call found:
\* nothing that the call inserted is there for a later lookup.
C18_AbortLeavesNothing ==
    [][\A p \in Procs :
         (ReloadReturns(p, "error") /\ ~overlapped[p])
         => serviceProviders' = before[p][1]]_vars

\* C18 amended: when a Store.Get fails, initializeServices returns that error
\* at once and loads no further name; the entries it inserted for the names
\* listed before the failing one stay in the map, where a later lookup finds
\* them.
C18_AbortKeepsLoaded ==
    [][\A p \in Procs :
         ReloadReturns(p, "error")
         => /\ serviceNames[p] # <<>>
            /\ serviceProviders' = serviceProviders
            /\ \A n \in LoadedNames(p) :
                  /\ LookupByEntityID(serviceProviders', store[n].Metadata.EntityID) # <<>>
                  /\ ~NotDurable(store, store[n].Metadata.EntityID)]_vars

\* initializeServices found an empty map, loaded service "a" and returned the
\* error of service "b": the entry of "a" is in the map, that of "b" is not.
C18_Witness ==
    /\ response.op = "initializeServices"
    /\ response.code = "error"
    /\ ncalls = 1
    /\ \A p \in Procs : Idle(p)
    /\ \E p \in Procs : before[p] = <<EmptyIndex>>
    /\ DOMAIN store = {"a", "b"}
    /\ store["a"].Metadata = EntityDescriptor("E1", "m1")
    /\ store["b"].Metadata = EntityDescriptor("E2", "m1")
    /\ LookupByEntityID(serviceProviders, "E1") = <<EntityDescriptor("E1", "m1")>>
    /\ LookupByEntityID(serviceProviders, "E2") = <<>>

\* ---------------------------------------------------------------- C19
\* C19: the record in the Store is that of the AddService whose Put came last,
\* and the map entry is the metadata of the AddService that took the lock
\* last: each AddService puts its record when it calls Store.Put, and writes
\* its metadata under its entity ID, holding the lock, when it returns.
C19_LastWriterWins ==
    [][\A p \in Procs :
         /\ (Idle(p) /\ pc'[p] = "AddService_Lock")
            => GetByName(store', arg'[p][1].Name) = arg'[p]
         /\ ReturnsFrom(p, "AddService_Insert")
            => /\ idpConfigMu.writer = p
               /\ LookupByEntityID(serviceProviders', arg[p][1].Metadata.EntityID)
                    = <<arg[p][1].Metadata>>
               /\ store' = store]_vars

\* Two AddService calls for service "a" with entity ID E1 have returned: the
\* Store holds the record of the one, the map the metadata of the other.
C19_Witness ==
    /\ ncalls = 2
    /\ \A p \in Procs : Idle(p)
    /\ response.op = "AddService"
    /\ response.code = "nil"
    /\ response.arg = <<Service("a", EntityDescriptor("E1", "m2"))>>
    /\ GetByName(store, "a") = <<Service("a", EntityDescriptor("E1", "m1"))>>
    /\ LookupByEntityID(serviceProviders, "E1") = <<EntityDescriptor("E1", "m2")>>

\* ---------------------------------------------------------------- C20
\* While the process runs, a goroutine that holds idpConfigMu is at the step
\* that writes or reads the map and releases the lock, which calls no Store
\* method.
LockDiscipline ==
    (\E p \in Procs : pc[p] # "fatal") =>
        /\ \A p \in Procs : idpConfigMu.writer = p => WritesIndex(p)
        /\ \A p \in idpConfigMu.readers : pc[p] = "GetServiceProvider_Read"
        /\ idpConfigMu.writer \in Procs => idpConfigMu.readers = {}

\* C20: no Store method is called and no return is taken with idpConfigMu
\* held, and the calls in flight are never stuck: while a call is in flight,
\* some call in flight can take its next step, so that the calls, which are
\* finitely many steps each, all return when every goroutine gets to run.
C20_NoCallStuck ==
    /\ LockDiscipline
    /\ (\E p \in Procs : ~Idle(p)) => (\E p \in Procs : ENABLED Continue(p))

====
